---- MODULE Spec2Model ----
(***************************************************************************)
(* Model of the image-to-PDF page assembly component                       *)
(* (src/src/components/tools/pdf/imgtopdf.tsx): the ordered collection of  *)
(* images held in React state, the handlers that mutate it, and the        *)
(* asynchronous generatePDF loop that suspends at every image decode.      *)
(*                                                                         *)
(* Indices are 0-based as in the source; a TLA+ sequence position is the   *)
(* source index plus one.                                                  *)
(***************************************************************************)
EXTENDS Integers, Sequences, FiniteSets, TLC

VARIABLES
    selectedImages, \* useState<ImageData[]>: sequence of [file, id]
    status,         \* useState<{message, type} | null>
    loading,        \* useState(false)
    draggedImage,   \* useState<string | null>
    urlCalls,       \* object URLs created and revoked by the event that ran last
    gen,            \* the generatePDF invocations in flight, oldest first:
                    \* the closure and the locals of each
    saved,          \* documents handed to pdf.save by the event that ran last
    lastOp,         \* the handler that ran last, with its arguments
    pageSettings,   \* useState<PageSettings>
    placement,      \* the image size and the rectangle of the pdf.addImage
                    \* call, when the event that ran last computed one
    pdfSplit        \* the PdfSplit component (pdfsplit.tsx): its state hooks,
                    \* its handleSplit invocations in flight, and what the
                    \* event that ran last sent and downloaded

vars == <<selectedImages, status, loading, draggedImage, urlCalls, gen, saved,
          lastOp, pageSettings, placement, pdfSplit>>

----------------------------------------------------------------------------
(* Bounds of the model.                                                    *)

\* The cap on the collection.  The source compares against the literal 50
\* (imgtopdf.tsx:65); the model keeps the comparison and scales the number
\* so that the cap is reached and exceeded within the explored states.
MaxImages == 3

\* Largest FileList handed to handleFiles.
MaxBatch == 2

----------------------------------------------------------------------------
(* Values.                                                                 *)

AllowedTypes == {"image/jpeg", "image/png", "image/webp", "image/gif"}

\* MIME types of the files a user hands in: two allowed ones and one that
\* the filter rejects.
FileTypes == {"image/png", "image/jpeg", "application/pdf"}

\* The strings generateId (line 50) can return.  Ids are only compared for
\* equality; two of them let a draw repeat an id in use or differ from it.
Ids == {1, 2}

\* The null that status starts as (line 37).
NoStatus == [message |-> "", type |-> "null"]

\* The null that draggedImage starts as (line 39); no generated id equals it.
NoId == 0

Batches == UNION {[1 .. n -> FileTypes] : n \in 0 .. MaxBatch}

\* No generatePDF invocation in flight.
Idle == <<>>

\* An event that calls neither URL.createObjectURL nor URL.revokeObjectURL.
NoUrlCalls == [created |-> 0, revoked |-> 0]

Min(a, b) == IF a <= b THEN a ELSE b

\* The options of the orientation select (lines 384-385).
Orientations == {"portrait", "landscape"}

\* The max attribute of the margin slider (line 395); its min is 0.
MaxMargin == 30

\* The values of the quality slider: min 50, max 100, step 10.
Qualities == {50 + 10 * k : k \in 0 .. 5}

\* Intrinsic widths and heights (imgElement.width, imgElement.height) of
\* the images decoded: smaller than, equal to and larger than the page.
ImageSizes == {1, 3, 150, 210, 297, 640}

\* The null that error and success of PdfSplit start as.
Null == "null"

\* The null that selectedFile of PdfSplit starts as.
NoFile == [name |-> "", type |-> "null"]

\* Longest page selection typed into the pages field.
MaxPagesLen == 4

\* The characters typed into the pages field: a digit, the two separators
\* of the page grammar, a blank and a letter.
Chars == {"1", ",", "-", " ", "a"}

\* The files handed to the PdfSplit component: two PDFs, one of them named
\* just ".pdf", and a file that is no PDF.
SplitFiles ==
    {[name |-> "a.pdf", type |-> "application/pdf"],
     [name |-> ".pdf", type |-> "application/pdf"],
     [name |-> "b.png", type |-> "image/png"]}

\* What the split endpoint (or the network) answers to a request.
Outcomes == {"ok", "notOk", "throws"}

\* No pdf.addImage rectangle computed by the event that ran last.
NoPlacement == [drawn |-> FALSE]

----------------------------------------------------------------------------
(* Array helpers, as the JavaScript built-ins compute them.                *)

\* Array.prototype.findIndex for "img => img.id === id": first 0-based
\* index, or -1.
FindIndex(images, id) ==
    IF \E k \in 1 .. Len(images) : images[k].id = id
    THEN (CHOOSE k \in 1 .. Len(images) :
              /\ images[k].id = id
              /\ \A j \in 1 .. (k - 1) : images[j].id # id) - 1
    ELSE -1

\* images.splice(start, 1) for 0 <= start < length: the array left behind.
SpliceOut(images, start) ==
    SubSeq(images, 1, start) \o SubSeq(images, start + 2, Len(images))

\* images.splice(start, 0, item): start is clamped to the length.
SpliceIn(images, start, item) ==
    LET at == Min(start, Len(images))
    IN  SubSeq(images, 1, at) \o <<item>> \o SubSeq(images, at + 1, Len(images))

----------------------------------------------------------------------------
(* State after construction (imgtopdf.tsx:35-46).                          *)

Init ==
    /\ selectedImages = <<>>
    /\ status = NoStatus
    /\ loading = FALSE
    /\ draggedImage = NoId
    /\ urlCalls = NoUrlCalls
    /\ gen = Idle
    /\ saved = <<>>
    /\ lastOp = [op |-> "init"]
    /\ pageSettings = [orientation |-> "portrait", margin |-> 10, quality |-> 100]
    /\ placement = NoPlacement
    /\ pdfSplit = [selectedFile |-> NoFile, pages |-> <<>>, loading |-> FALSE,
                   error |-> Null, success |-> Null, fileName |-> "",
                   calls |-> <<>>, requests |-> <<>>, downloads |-> <<>>]

----------------------------------------------------------------------------
(* handleFiles (imgtopdf.tsx:53-78), reached from the file input's         *)
(* onChange and from handleDrop.                                           *)

IsValidImage(type) == type \in AllowedTypes

\* Mutant: the MIME filter left out.
validImages_Unfiltered(files) == files

\* Array.from(files).filter(...), line 56-58
validImages(files) == SelectSeq(files, IsValidImage)

\* Mutant: the cap test looks at the incoming batch alone.
OverCap_BatchOnly(nValid, nSelected) == nValid > MaxImages

\* Mutant: the cap test is off by one.
OverCap_OffByOne(nValid, nSelected) == nValid + nSelected > MaxImages + 1

\* The cap test of line 65.
OverCap(nValid, nSelected) == nValid + nSelected > MaxImages

\* `${imageData.length} image(s) added`
AddedMessage(n) == ToString(n) \o " image(s) added"

\* Mutant: the entries are built from the batch back to front.
imageData_Reversed(valid, ids) ==
    [k \in 1 .. Len(valid) |->
        [file |-> valid[Len(valid) + 1 - k], id |-> ids[k]]]

\* validImages.map(...): one entry per valid file, ids as generateId
\* happened to draw them.  The url field is an opaque string that the code
\* only hands on (to img.src); the entry of the model leaves it out and
\* urlCalls counts the URL.createObjectURL call made for it.
imageData(valid, ids) ==
    [k \in 1 .. Len(valid) |-> [file |-> valid[k], id |-> ids[k]]]

handleFiles(files) ==
    LET valid == validImages(files)
    IN  /\ IF Len(valid) = 0
           THEN /\ status' = [message |-> "Please upload valid images (JPEG, PNG, WebP, GIF)",
                              type |-> "error"]
                /\ urlCalls' = NoUrlCalls
                /\ UNCHANGED selectedImages
           ELSE IF OverCap(Len(valid), Len(selectedImages))
           THEN /\ status' = [message |-> "Maximum 50 images allowed", type |-> "error"]
                /\ urlCalls' = NoUrlCalls
                /\ UNCHANGED selectedImages
           ELSE /\ \E ids \in [1 .. Len(valid) -> Ids] :
                       selectedImages' = selectedImages \o imageData(valid, ids)
                /\ urlCalls' = [created |-> Len(valid), revoked |-> 0]
                /\ status' = [message |-> AddedMessage(Len(valid)), type |-> "success"]
        /\ saved' = <<>>
        /\ UNCHANGED <<loading, draggedImage, gen>>

----------------------------------------------------------------------------
(* Drag and drop for image rearrangement (imgtopdf.tsx:91-120).            *)

handleDragStart(imageId) ==
    /\ draggedImage' = imageId
    /\ urlCalls' = NoUrlCalls
    /\ saved' = <<>>
    /\ UNCHANGED <<selectedImages, status, loading, gen>>

\* Mutant: the insertion index is corrected for the removal, so that the
\* dragged entry always lands in front of the target.
DropReorder_BeforeTarget(prev, dragged, targetImageId) ==
    LET draggedIndex == FindIndex(prev, dragged)
        targetIndex == FindIndex(prev, targetImageId)
    IN  IF draggedIndex = -1 \/ targetIndex = -1
        THEN prev
        ELSE SpliceIn(SpliceOut(prev, draggedIndex),
                      IF draggedIndex < targetIndex THEN targetIndex - 1 ELSE targetIndex,
                      prev[draggedIndex + 1])

\* The functional update of lines 105-116, applied to prev.
DropReorder(prev, dragged, targetImageId) ==
    LET draggedIndex == FindIndex(prev, dragged)
        targetIndex == FindIndex(prev, targetImageId)
    IN  IF draggedIndex = -1 \/ targetIndex = -1
        THEN prev
        ELSE SpliceIn(SpliceOut(prev, draggedIndex), targetIndex, prev[draggedIndex + 1])

handleDropImage(targetImageId) ==
    /\ IF draggedImage = NoId \/ draggedImage = targetImageId
       THEN UNCHANGED <<selectedImages, draggedImage, status>>
       ELSE /\ selectedImages' = DropReorder(selectedImages, draggedImage, targetImageId)
            /\ draggedImage' = NoId
            /\ status' = [message |-> "Image order updated", type |-> "success"]
    /\ urlCalls' = NoUrlCalls
    /\ saved' = <<>>
    /\ UNCHANGED <<loading, gen>>

----------------------------------------------------------------------------
(* removeImage and clearAll (imgtopdf.tsx:123-137).                        *)

\* prev.filter(img => img.id !== id)
WithoutId(prev, id) ==
    LET Keep(img) == img.id # id IN SelectSeq(prev, Keep)

removeImage(id) ==
    LET newImages == WithoutId(selectedImages, id)
    IN  /\ selectedImages' = newImages
        /\ status' = IF Len(newImages) = 0
                     THEN [message |-> "All images removed", type |-> "success"]
                     ELSE status
        /\ urlCalls' = NoUrlCalls
        /\ saved' = <<>>
        /\ UNCHANGED <<loading, draggedImage, gen>>

clearAll ==
    /\ selectedImages' = <<>>
    /\ status' = [message |-> "All images cleared", type |-> "success"]
    /\ urlCalls' = NoUrlCalls
    /\ saved' = <<>>
    /\ UNCHANGED <<loading, draggedImage, gen>>

----------------------------------------------------------------------------
(* moveImage (imgtopdf.tsx:140-151).                                       *)

\* Mutant: the guard forgets the lower end of the list.
AtBoundary_UpOnly(index, direction, length) == direction = "up" /\ index = 0

\* The guard of line 141.
AtBoundary(index, direction, length) ==
    \/ direction = "up" /\ index = 0
    \/ direction = "down" /\ index = length - 1

\* What reading images[j] yields: undefined outside the array.
Undefined == [file |-> "undefined", id |-> NoId]

ElementAt(images, j) ==
    IF j >= 0 /\ j < Len(images) THEN images[j + 1] ELSE Undefined

\* Mutant: the entry is copied over its neighbour and not swapped back.
SwapWithNeighbour_Overwrite(prev, index, direction) ==
    LET newIndex == IF direction = "up" THEN index - 1 ELSE index + 1
    IN  [k \in 1 .. Len(prev) |->
            IF k = newIndex + 1 THEN ElementAt(prev, index) ELSE prev[k]]

\* Mutant: the swap is left out.
SwapWithNeighbour_Forgotten(prev, index, direction) == prev

\* The functional update of lines 145-150: the destructuring swap
\* [images[index], images[newIndex]] = [images[newIndex], images[index]].
\* Assigning at the length grows the array by one; assigning at -1 sets a
\* property and leaves the elements alone.
SwapWithNeighbour(prev, index, direction) ==
    LET newIndex == IF direction = "up" THEN index - 1 ELSE index + 1
        length == IF newIndex >= Len(prev) THEN newIndex + 1 ELSE Len(prev)
    IN  [k \in 1 .. length |->
            IF k = index + 1 THEN ElementAt(prev, newIndex)
            ELSE IF k = newIndex + 1 THEN ElementAt(prev, index)
            ELSE prev[k]]

\* Mutant: the swap is done on the array itself and not on a copy, so that
\* an assembly started on that array sees it.
moveImage_InPlace(index, direction) ==
    /\ IF AtBoundary(index, direction, Len(selectedImages))
       THEN UNCHANGED <<selectedImages, gen>>
       ELSE /\ selectedImages' = SwapWithNeighbour(selectedImages, index, direction)
            /\ gen' = [k \in 1 .. Len(gen) |->
                          IF gen[k].pc = "await" /\ gen[k].images = selectedImages
                          THEN [gen[k] EXCEPT !.images = selectedImages']
                          ELSE gen[k]]
    /\ urlCalls' = NoUrlCalls
    /\ saved' = <<>>
    /\ UNCHANGED <<status, loading, draggedImage>>

moveImage(index, direction) ==
    /\ IF AtBoundary(index, direction, Len(selectedImages))
       THEN UNCHANGED selectedImages
       ELSE selectedImages' = SwapWithNeighbour(selectedImages, index, direction)
    /\ urlCalls' = NoUrlCalls
    /\ saved' = <<>>
    /\ UNCHANGED <<status, loading, draggedImage, gen>>

----------------------------------------------------------------------------
(* generatePDF (imgtopdf.tsx:154-212).  The async function runs to its     *)
(* first await in the click handler; every later stretch runs when the     *)
(* awaited image fires its load event.  Its closure holds the              *)
(* selectedImages array of the render in which the button was clicked.     *)

\* Mutant: every image is placed as a JPEG.
ImageFormat_AlwaysJpeg(type) == "JPEG"

\* Line 197.
ImageFormat(type) == IF type = "image/png" THEN "PNG" ELSE "JPEG"

\* `PDF generated with ${selectedImages.length} image(s)`
GeneratedMessage(n) == "PDF generated with " \o ToString(n) \o " image(s)"

\* new jsPDF(...): a document of one empty page.
NewDocument == << <<>> >>

\* Mutant: no page is added.
AddPage_Nothing(doc) == doc

\* pdf.addPage()
AddPage(doc) == Append(doc, <<>>)

\* Mutant: the image is drawn on the first page.
AddImage_FirstPage(doc, img) ==
    [doc EXCEPT ![1] =
        Append(@, [image |-> img, format |-> ImageFormat(img.file)])]

\* pdf.addImage(imgElement, format, ...): the image loaded from the entry's
\* url, drawn on the current (last) page.
AddImage(doc, img) ==
    [doc EXCEPT ![Len(doc)] =
        Append(@, [image |-> img, format |-> ImageFormat(img.file)])]

\* Mutant: the test for the empty collection left out.
generatePDF_Unguarded ==
    /\ loading' = TRUE
    /\ status' = [message |-> "Generating PDF...", type |-> "info"]
    /\ gen' = Append(gen, [pc |-> "await", images |-> selectedImages,
                           i |-> 0, pdf |-> NewDocument])
    /\ urlCalls' = NoUrlCalls
    /\ saved' = <<>>
    /\ UNCHANGED <<selectedImages, draggedImage>>

generatePDF ==
    /\ IF Len(selectedImages) = 0
       THEN /\ status' = [message |-> "No images selected", type |-> "error"]
            /\ UNCHANGED <<loading, gen>>
       ELSE /\ loading' = TRUE
            /\ status' = [message |-> "Generating PDF...", type |-> "info"]
            /\ gen' = Append(gen, [pc |-> "await", images |-> selectedImages,
                                   i |-> 0, pdf |-> NewDocument])
    /\ urlCalls' = NoUrlCalls
    /\ saved' = <<>>
    /\ UNCHANGED <<selectedImages, draggedImage>>

\* imgElement.onload of invocation k for its entry i (lines 178-200), then
\* the loop up to the next await or, after the last entry, lines 204-210,
\* with which the invocation ends.
imgOnload(k) ==
    /\ gen[k].pc = "await"
    /\ LET g == gen[k]
           placed == AddImage(g.pdf, g.images[g.i + 1])
           next == g.i + 1
       IN  IF next < Len(g.images)
           THEN /\ gen' = [gen EXCEPT ![k] = [g EXCEPT !.i = next,
                                                       !.pdf = AddPage(placed)]]
                /\ saved' = <<>>
                /\ UNCHANGED <<status, loading>>
           ELSE /\ saved' = <<placed>>
                /\ status' = [message |-> GeneratedMessage(Len(g.images)),
                              type |-> "success"]
                /\ loading' = FALSE
                /\ gen' = SpliceOut(gen, k - 1)
    /\ urlCalls' = NoUrlCalls
    /\ UNCHANGED <<selectedImages, draggedImage>>

\* The image invocation k waits for fails to decode: its error event has
\* no handler, so the promise of line 177 never settles and the function,
\* with its locals, is never resumed.  (An exception thrown inside the
\* onload callback ends the same way: it leaves the callback before
\* resolve() and is not seen by the try of line 163.)
imgOnerror(k) ==
    /\ gen[k].pc = "await"
    /\ gen' = [gen EXCEPT ![k] = [pc |-> "stalled"]]
    /\ urlCalls' = NoUrlCalls
    /\ saved' = <<>>
    /\ UNCHANGED <<selectedImages, status, loading, draggedImage>>

----------------------------------------------------------------------------
(* The page settings (imgtopdf.tsx:372-417) and the rectangle an image is  *)
(* drawn in (imgtopdf.tsx:179-198).  The source computes the rectangle in  *)
(* double precision; the model computes the same expressions exactly, on   *)
(* fractions num/den with a positive den, kept in lowest terms.            *)

setOrientation(orientation) ==
    /\ pageSettings' = [pageSettings EXCEPT !.orientation = orientation]
    /\ placement' = NoPlacement
    /\ UNCHANGED <<selectedImages, status, loading, draggedImage, urlCalls,
                   gen, saved, lastOp, pdfSplit>>

setMargin(margin) ==
    /\ pageSettings' = [pageSettings EXCEPT !.margin = margin]
    /\ placement' = NoPlacement
    /\ UNCHANGED <<selectedImages, status, loading, draggedImage, urlCalls,
                   gen, saved, lastOp, pdfSplit>>

setQuality(quality) ==
    /\ pageSettings' = [pageSettings EXCEPT !.quality = quality]
    /\ placement' = NoPlacement
    /\ UNCHANGED <<selectedImages, status, loading, draggedImage, urlCalls,
                   gen, saved, lastOp, pdfSplit>>

\* pdf.internal.pageSize of a jsPDF document with unit 'mm' and format
\* 'a4' in the orientation asked for (lines 164-168, 179-180).
PageSize(orientation) ==
    IF orientation = "portrait"
    THEN [width |-> 210, height |-> 297]
    ELSE [width |-> 297, height |-> 210]

RECURSIVE GCD(_, _)
GCD(a, b) == IF b = 0 THEN a ELSE GCD(b, a % b)

\* The number n / d, for d > 0 and n >= 0.
Frac(n, d) == [num |-> n \div GCD(n, d), den |-> d \div GCD(n, d)]

\* Mutant: the larger of the two scale factors.
MathMin_Larger(a, b) == IF a.num * b.den <= b.num * a.den THEN b ELSE a

\* Math.min on two fractions.
MathMin(a, b) == IF a.num * b.den <= b.num * a.den THEN a ELSE b

\* n * a, for an integer n.
Times(n, a) == Frac(n * a.num, a.den)

\* (n - a) / 2, for an integer n >= a.
HalfOfRest(n, a) == Frac(n * a.den - a.num, 2 * a.den)

\* Lines 182-195: the rectangle for an image of intrinsic size
\* imgWidth x imgHeight on a page pdfWidth x pdfHeight.
FitToPage(pdfWidth, pdfHeight, margin, imgWidth, imgHeight) ==
    LET availableWidth == pdfWidth - (margin * 2)
        availableHeight == pdfHeight - (margin * 2)
        ratio == MathMin(Frac(availableWidth, imgWidth),
                         Frac(availableHeight, imgHeight))
        width == Times(imgWidth, ratio)
        height == Times(imgHeight, ratio)
    IN  [x |-> HalfOfRest(pdfWidth, width),
         y |-> HalfOfRest(pdfHeight, height),
         width |-> width,
         height |-> height]

\* Mutant: the quality setting chooses the compression mode.
Placement_QualityCompressed(settings, imgWidth, imgHeight) ==
    [drawn |-> TRUE, imgWidth |-> imgWidth, imgHeight |-> imgHeight,
     rect |-> FitToPage(PageSize(settings.orientation).width,
                        PageSize(settings.orientation).height,
                        settings.margin, imgWidth, imgHeight),
     compression |-> IF settings.quality < 100 THEN "MEDIUM" ELSE "FAST"]

\* The rectangle and the compression mode handed to pdf.addImage (line 198)
\* for an image of that size, under the page settings the invocation holds.
Placement(settings, imgWidth, imgHeight) ==
    [drawn |-> TRUE, imgWidth |-> imgWidth, imgHeight |-> imgHeight,
     rect |-> FitToPage(PageSize(settings.orientation).width,
                        PageSize(settings.orientation).height,
                        settings.margin, imgWidth, imgHeight),
     compression |-> "FAST"]

\* The onload of an image of intrinsic size imgWidth x imgHeight, as far as
\* the rectangle it hands to pdf.addImage goes, under the page settings in
\* force.
placeImage(imgWidth, imgHeight) ==
    /\ placement' = Placement(pageSettings, imgWidth, imgHeight)
    /\ UNCHANGED <<selectedImages, status, loading, draggedImage, urlCalls,
                   gen, saved, lastOp, pageSettings, pdfSplit>>

NextFit ==
    \/ \E orientation \in Orientations : setOrientation(orientation)
    \/ \E margin \in 0 .. MaxMargin : setMargin(margin)
    \/ \E quality \in Qualities : setQuality(quality)
    \/ \E imgWidth \in ImageSizes, imgHeight \in ImageSizes :
           placeImage(imgWidth, imgHeight)

\* The settings panel and the geometry of a placement.  The collection
\* handlers neither read nor write the page settings, and the rectangle of
\* a placement depends on nothing but the settings and the image's size.
SpecFit == Init /\ [][NextFit]_vars

----------------------------------------------------------------------------
(* The events the rendered page can deliver.  An image card exists for     *)
(* every entry of selectedImages: it is draggable, a drop target, and      *)
(* carries the move-up, move-down and remove buttons for its index.        *)

RenderedIds == {selectedImages[k].id : k \in 1 .. Len(selectedImages)}

RenderedIndices == 0 .. (Len(selectedImages) - 1)

\* The disabled attributes of the move buttons (lines 454 and 463).
MoveDisabled(index, direction) ==
    IF direction = "up" THEN index = 0 ELSE index = Len(selectedImages) - 1

\* Mutant: the button stays enabled while an assembly runs.
GenerateDisabled_EmptyOnly == Len(selectedImages) = 0

\* The disabled attribute of the Generate PDF button (line 501).
GenerateDisabled == loading \/ Len(selectedImages) = 0

\* The disabled attribute of the Clear All button (line 527).
ClearDisabled == Len(selectedImages) = 0 \/ loading

\* The handlers of the collection called directly, lastOp keeping the call.
\* The move buttons are disabled at the two ends of the list; the calls are
\* delivered here all the same, so that the guard of line 141 decides.
\* Likewise generatePDF is called on the empty collection, where its button
\* is disabled, so that the test of line 155 decides; on a non-empty one it
\* starts an assembly, whose image events belong to Spec.
Event(op) ==
    \/ /\ op.op = "handleFiles" /\ handleFiles(op.files)
    \/ /\ op.op = "handleDragStart" /\ handleDragStart(op.id)
    \/ /\ op.op = "handleDropImage" /\ handleDropImage(op.id)
    \/ /\ op.op = "removeImage" /\ removeImage(op.id)
    \/ /\ op.op = "moveImage" /\ moveImage(op.index, op.direction)
    \/ /\ op.op = "clearAll" /\ ~ClearDisabled /\ clearAll
    \/ /\ op.op = "generatePDF" /\ Len(selectedImages) = 0 /\ generatePDF

Events ==
    [op : {"handleFiles"}, files : Batches]
    \cup [op : {"handleDragStart", "handleDropImage", "removeImage"}, id : RenderedIds]
    \cup [op : {"moveImage"}, index : RenderedIndices, direction : {"up", "down"}]
    \cup [op : {"clearAll", "generatePDF"}]

Next ==
    \/ \E files \in Batches : handleFiles(files) /\ UNCHANGED <<lastOp, pageSettings, placement, pdfSplit>>
    \/ \E id \in RenderedIds : handleDragStart(id) /\ UNCHANGED <<lastOp, pageSettings, placement, pdfSplit>>
    \/ \E id \in RenderedIds : handleDropImage(id) /\ UNCHANGED <<lastOp, pageSettings, placement, pdfSplit>>
    \/ \E id \in RenderedIds : removeImage(id) /\ UNCHANGED <<lastOp, pageSettings, placement, pdfSplit>>
    \/ \E index \in RenderedIndices, direction \in {"up", "down"} :
           ~MoveDisabled(index, direction) /\ moveImage(index, direction)
             /\ UNCHANGED <<lastOp, pageSettings, placement, pdfSplit>>
    \/ ~ClearDisabled /\ clearAll /\ UNCHANGED <<lastOp, pageSettings, placement, pdfSplit>>
    \/ ~GenerateDisabled /\ generatePDF /\ UNCHANGED <<lastOp, pageSettings, placement, pdfSplit>>
    \/ \E k \in 1 .. Len(gen) : imgOnload(k) /\ UNCHANGED <<lastOp, pageSettings, placement, pdfSplit>>
    \/ \E k \in 1 .. Len(gen) : imgOnerror(k) /\ UNCHANGED <<lastOp, pageSettings, placement, pdfSplit>>

\* The page: every event it can deliver, assembly included.
Spec == Init /\ [][Next]_vars

\* The image an invocation waits for fires its load or its error event.
DecodeSettles ==
    /\ \E k \in 1 .. Len(gen) : imgOnload(k) \/ imgOnerror(k)
    /\ UNCHANGED <<lastOp, pageSettings, placement, pdfSplit>>

\* The page, with every image element firing load or error in the end: the
\* browser finishes each decode it was given, one way or the other.
SpecFair == Spec /\ WF_vars(DecodeSettles)

\* What lastOp keeps of a call: its arguments and, for a drop, the dragged
\* id and the two indices the handler finds.
Logged(op) ==
    IF op.op = "handleDropImage"
    THEN [op |-> op.op, id |-> op.id, dragged |-> draggedImage,
          draggedIndex |-> FindIndex(selectedImages, draggedImage),
          targetIndex |-> FindIndex(selectedImages, op.id)]
    ELSE op

NextOps ==
    \E op \in Events :
        /\ Event(op)
        /\ lastOp' = Logged(op)
        /\ UNCHANGED <<pageSettings, placement, pdfSplit>>

SpecOps == Init /\ [][NextOps]_vars

----------------------------------------------------------------------------
(* The PdfSplit component (pdfsplit.tsx).  A page selection is a sequence  *)
(* of characters.  handleSplit runs to its await of fetch in the click     *)
(* handler; the rest of it runs when the request settles.                  *)

\* The class \d of the regular expression.
IsDigit(c) == c \in {"0", "1", "2", "3", "4", "5", "6", "7", "8", "9"}

\* The class \s, as far as the characters typed go.
IsWhitespace(c) == c = " "

\* Mutant: everything but the digits is taken out.
StripWhitespace_AllButDigits(text) == SelectSeq(text, IsDigit)

\* pages.replace(/\s/g, '')
StripWhitespace(text) ==
    LET Kept(c) == ~IsWhitespace(c) IN SelectSeq(text, Kept)

\* pages.trim()
RECURSIVE Trim(_)
Trim(text) ==
    IF text = <<>> THEN text
    ELSE IF IsWhitespace(Head(text)) THEN Trim(Tail(text))
    ELSE IF IsWhitespace(text[Len(text)]) THEN Trim(SubSeq(text, 1, Len(text) - 1))
    ELSE text

\* \d+ read from position i: the positions a match can end before.
DigitRun(text, i) ==
    {j \in (i + 1) .. (Len(text) + 1) : \A k \in i .. (j - 1) : IsDigit(text[k])}

\* \s* read from position i.
SpaceRun(text, i) ==
    {j \in i .. (Len(text) + 1) : \A k \in i .. (j - 1) : IsWhitespace(text[k])}

\* \d+(-\d+)? read from position i.
PageAt(text, i) ==
    LET first == DigitRun(text, i)
    IN  first \cup UNION {DigitRun(text, j + 1) :
                             j \in {x \in first : x <= Len(text) /\ text[x] = "-"}}

\* (,\s*\d+(-\d+)?)* read from any of the positions in ends.
RECURSIVE PageList(_, _)
PageList(text, ends) ==
    LET more == UNION {UNION {PageAt(text, k) : k \in SpaceRun(text, j + 1)} :
                         j \in {x \in ends : x <= Len(text) /\ text[x] = ","}}
    IN  IF more \subseteq ends THEN ends ELSE PageList(text, ends \cup more)

\* Mutant: the expression without its $.
pageRegexTest_Unanchored(text) == PageList(text, PageAt(text, 1)) # {}

\* /^(\d+(-\d+)?)(,\s*\d+(-\d+)?)*$/.test(text), line 46
pageRegexTest(text) == (Len(text) + 1) \in PageList(text, PageAt(text, 1))

\* fileName.replace('.pdf', ''), for the names of SplitFiles.
WithoutPdf(fileName) ==
    IF fileName = "a.pdf" THEN "a"
    ELSE IF fileName = ".pdf" THEN ""
    ELSE fileName

\* `split-${fileName.replace('.pdf', '') || "document"}.pdf`
DownloadName(fileName) ==
    "split-" \o (IF WithoutPdf(fileName) = "" THEN "document" ELSE WithoutPdf(fileName))
             \o ".pdf"

\* The component as an event finds it: nothing sent or downloaded yet.
Quiet(p) == [p EXCEPT !.requests = <<>>, !.downloads = <<>>]

handleFileChange(files) ==
    /\ pdfSplit' =
         LET p == [Quiet(pdfSplit) EXCEPT !.error = Null, !.success = Null]
         IN  IF Len(files) = 0 THEN p
             ELSE IF files[1].type = "application/pdf"
             THEN [p EXCEPT !.selectedFile = files[1], !.fileName = files[1].name]
             ELSE [p EXCEPT !.error = "Please upload a PDF file only."]
    /\ UNCHANGED <<selectedImages, status, loading, draggedImage, urlCalls,
                   gen, saved, pageSettings, placement>>

handlePagesChange(value) ==
    /\ pdfSplit' = [Quiet(pdfSplit) EXCEPT !.pages = value, !.error = Null]
    /\ UNCHANGED <<selectedImages, status, loading, draggedImage, urlCalls,
                   gen, saved, pageSettings, placement>>

\* Lines 35-59: the three tests, then the request is sent and the function
\* waits for fetch.
handleSplit ==
    /\ pdfSplit' =
         LET p == Quiet(pdfSplit)
         IN  IF p.selectedFile = NoFile
             THEN [p EXCEPT !.error = "Please select a PDF file."]
             ELSE IF Trim(p.pages) = <<>>
             THEN [p EXCEPT !.error = "Please enter pages to extract (comma-separated or ranges like 1-5)."]
             ELSE IF ~pageRegexTest(StripWhitespace(p.pages))
             THEN [p EXCEPT !.error = "Invalid page format. Use commas for separate pages and hyphens for ranges (e.g., 1,3-5,8)."]
             ELSE [p EXCEPT !.loading = TRUE, !.error = Null, !.success = Null,
                            !.requests = <<[file |-> p.selectedFile, pages |-> p.pages]>>,
                            !.calls = Append(@, [pc |-> "fetch", fileName |-> p.fileName])]
    /\ UNCHANGED <<selectedImages, status, loading, draggedImage, urlCalls,
                   gen, saved, pageSettings, placement>>

\* Mutant: a request that failed is sent again.
fetchSettles_Retry(k, outcome) ==
    /\ k \in 1 .. Len(pdfSplit.calls)
    /\ pdfSplit' =
         LET p == Quiet(pdfSplit)
         IN  IF outcome = "ok"
             THEN [p EXCEPT !.calls = SpliceOut(@, k - 1), !.loading = FALSE,
                            !.downloads = <<DownloadName(p.calls[k].fileName)>>,
                            !.success = "PDF successfully split and downloaded!"]
             ELSE [p EXCEPT !.requests = <<[file |-> p.selectedFile, pages |-> p.pages]>>]
    /\ UNCHANGED <<selectedImages, status, loading, draggedImage, urlCalls,
                   gen, saved, pageSettings, placement>>

\* Mutant: the finally of line 82 left out.
fetchSettles_NoFinally(k, outcome) ==
    /\ k \in 1 .. Len(pdfSplit.calls)
    /\ pdfSplit' =
         LET p == [Quiet(pdfSplit) EXCEPT !.calls = SpliceOut(@, k - 1)]
         IN  IF outcome = "ok"
             THEN [p EXCEPT !.downloads = <<DownloadName(pdfSplit.calls[k].fileName)>>,
                            !.success = "PDF successfully split and downloaded!"]
             ELSE IF outcome = "notOk"
             THEN [p EXCEPT !.error = "Failed to split PDF"]
             ELSE [p EXCEPT !.error = "Failed to fetch"]
    /\ UNCHANGED <<selectedImages, status, loading, draggedImage, urlCalls,
                   gen, saved, pageSettings, placement>>

\* Lines 59-84: the fetch of invocation k settles.  A response that is ok
\* is downloaded under the name built from the fileName the invocation
\* holds; one that is not, and a fetch that throws, end in the catch.
fetchSettles(k, outcome) ==
    /\ k \in 1 .. Len(pdfSplit.calls)
    /\ pdfSplit' =
         LET p == [Quiet(pdfSplit) EXCEPT !.calls = SpliceOut(@, k - 1),
                                          !.loading = FALSE]
         IN  IF outcome = "ok"
             THEN [p EXCEPT !.downloads = <<DownloadName(pdfSplit.calls[k].fileName)>>,
                            !.success = "PDF successfully split and downloaded!"]
             ELSE IF outcome = "notOk"
             THEN [p EXCEPT !.error = "Failed to split PDF"]
             ELSE [p EXCEPT !.error = "Failed to fetch"]
    /\ UNCHANGED <<selectedImages, status, loading, draggedImage, urlCalls,
                   gen, saved, pageSettings, placement>>

handleReset ==
    /\ pdfSplit' = [Quiet(pdfSplit) EXCEPT !.selectedFile = NoFile, !.pages = <<>>,
                                           !.error = Null, !.success = Null,
                                           !.fileName = ""]
    /\ UNCHANGED <<selectedImages, status, loading, draggedImage, urlCalls,
                   gen, saved, pageSettings, placement>>

\* Mutant: a file that is no PDF takes the selection away.
handleDrop_RejectClears(files) ==
    /\ pdfSplit' =
         LET p == Quiet(pdfSplit)
         IN  IF Len(files) = 0 THEN p
             ELSE IF files[1].type = "application/pdf"
             THEN [p EXCEPT !.selectedFile = files[1], !.fileName = files[1].name,
                            !.error = Null, !.success = Null]
             ELSE [p EXCEPT !.selectedFile = NoFile,
                            !.error = "Please upload a PDF file only."]
    /\ UNCHANGED <<selectedImages, status, loading, draggedImage, urlCalls,
                   gen, saved, pageSettings, placement>>

\* handleDrop of pdfsplit.tsx (lines 96-111).
handleDrop(files) ==
    /\ pdfSplit' =
         LET p == Quiet(pdfSplit)
         IN  IF Len(files) = 0 THEN p
             ELSE IF files[1].type = "application/pdf"
             THEN [p EXCEPT !.selectedFile = files[1], !.fileName = files[1].name,
                            !.error = Null, !.success = Null]
             ELSE [p EXCEPT !.error = "Please upload a PDF file only."]
    /\ UNCHANGED <<selectedImages, status, loading, draggedImage, urlCalls,
                   gen, saved, pageSettings, placement>>

\* The FileLists a file input or a drop delivers: empty, or one file.
SplitFileLists == {<<>>} \cup {<<file>> : file \in SplitFiles}

\* What a keystroke in the pages field makes of its value: a character
\* more at the end, or the last one less.
Typed(pages) ==
    (IF Len(pages) < MaxPagesLen THEN {Append(pages, c) : c \in Chars} ELSE {})
    \cup (IF Len(pages) > 0 THEN {SubSeq(pages, 1, Len(pages) - 1)} ELSE {})

\* The disabled attribute of the Reset button (line 282).
ResetDisabled == pdfSplit.loading

\* The events of the PdfSplit page, lastOp keeping the handler.  The Split
\* button is disabled while loading, without a file and without pages
\* (line 256); handleSplit is called all the same in the last two cases, so
\* that the tests of lines 36 and 40 decide.
NextSplit ==
    \/ \E files \in SplitFileLists :
           handleFileChange(files)
             /\ lastOp' = [op |-> "handleFileChange", files |-> files]
    \/ \E files \in SplitFileLists :
           handleDrop(files) /\ lastOp' = [op |-> "handleDrop", files |-> files]
    \/ \E value \in Typed(pdfSplit.pages) :
           handlePagesChange(value) /\ lastOp' = [op |-> "handlePagesChange"]
    \/ ~pdfSplit.loading /\ handleSplit /\ lastOp' = [op |-> "handleSplit"]
    \/ \E k \in 1 .. Len(pdfSplit.calls), outcome \in Outcomes :
           fetchSettles(k, outcome)
             /\ lastOp' = [op |-> "fetchSettles", outcome |-> outcome]
    \/ ~ResetDisabled /\ handleReset /\ lastOp' = [op |-> "handleReset"]

SpecSplit == Init /\ [][NextSplit]_vars

----------------------------------------------------------------------------
(* Properties.  Those about a single handler are statements about the     *)
(* steps of SpecOps, in which lastOp' is the call the step makes.          *)

AcceptedMime == {"image/jpeg", "image/png", "image/webp", "image/gif"}

IsAcceptedMime(type) == type \in AcceptedMime

\* valid(B): the files of the batch whose MIME type is accepted.
ValidOf(files) == SelectSeq(files, IsAcceptedMime)

Files(images) == [k \in 1 .. Len(images) |-> images[k].file]

IsIntake == lastOp'.op = "handleFiles"

\* C1: an intake of a batch with at least one valid file that fits under
\* the cap leaves the old collection as a prefix, appends one entry per
\* valid file in the batch's order, and reports their number as a success.
C1_IntakeAppends ==
    [][(IsIntake /\ Len(ValidOf(lastOp'.files)) >= 1
          /\ Len(selectedImages) + Len(ValidOf(lastOp'.files)) <= MaxImages)
       => LET valid == ValidOf(lastOp'.files)
              n == Len(selectedImages)
          IN  /\ Len(selectedImages') = n + Len(valid)
              /\ SubSeq(selectedImages', 1, n) = selectedImages
              /\ Files(SubSeq(selectedImages', n + 1, n + Len(valid))) = valid
              /\ status' = [message |-> ToString(Len(valid)) \o " image(s) added",
                            type |-> "success"]]_vars

C1_Witness ==
    /\ lastOp.op = "handleFiles"
    /\ lastOp.files = <<"image/jpeg", "image/png">>
    /\ Len(selectedImages) = 3
    /\ Files(selectedImages) = <<"image/png", "image/jpeg", "image/png">>
    /\ status = [message |-> "2 image(s) added", type |-> "success"]

\* C2: an intake whose valid files would take the collection past the cap
\* admits none of them, creates no object URL and shows an error.
C2_OverCapRejected ==
    [][(IsIntake
          /\ Len(selectedImages) + Len(ValidOf(lastOp'.files)) > MaxImages)
       => /\ selectedImages' = selectedImages
          /\ urlCalls'.created = 0
          /\ status'.type = "error"]_vars

\* Two entries held, two valid files offered: one of them would have fit.
C2_Witness ==
    /\ lastOp.op = "handleFiles"
    /\ Len(ValidOf(lastOp.files)) = 2
    /\ Len(selectedImages) = MaxImages - 1
    /\ urlCalls.created = 0
    /\ status = [message |-> "Maximum 50 images allowed", type |-> "error"]

\* C3: the collection never holds more entries than the cap, whatever the
\* page delivers, also while an assembly waits for a decode.
C3_SizeBounded == Len(selectedImages) <= MaxImages

\* The collection was filled to the cap while an assembly, started on fewer
\* entries, waits for a decode.
C3_Witness ==
    /\ Len(gen) = 1
    /\ gen[1].pc = "await"
    /\ Len(selectedImages) = MaxImages
    /\ Len(gen[1].images) < MaxImages

\* C4: a batch without any accepted MIME type changes nothing but the
\* notification, which becomes an error; a batch that mixes accepted and
\* other types, and fits under the cap, admits the accepted files only.
C4_MimeFilter ==
    [][IsIntake
       => LET valid == ValidOf(lastOp'.files)
              n == Len(selectedImages)
          IN  /\ Len(valid) = 0
                 => /\ selectedImages' = selectedImages
                    /\ urlCalls'.created = 0
                    /\ status'.type = "error"
              /\ (Len(valid) >= 1 /\ Len(valid) < Len(lastOp'.files)
                    /\ n + Len(valid) <= MaxImages)
                 => /\ Len(selectedImages') = n + Len(valid)
                    /\ \A k \in (n + 1) .. Len(selectedImages') :
                           selectedImages'[k].file \in AcceptedMime
                    /\ Files(SubSeq(selectedImages', n + 1, n + Len(valid))) = valid]_vars

\* A batch of one PDF and one PNG left exactly the PNG behind.
C4_Witness ==
    /\ lastOp.op = "handleFiles"
    /\ lastOp.files = <<"application/pdf", "image/png">>
    /\ Files(selectedImages) = <<"image/jpeg", "image/png">>
    /\ status = [message |-> "1 image(s) added", type |-> "success"]

IsDrop == lastOp'.op = "handleDropImage"

IsMove == lastOp'.op = "moveImage"

IsRemove == lastOp'.op = "removeImage"

IdsOf(images) == {images[k].id : k \in 1 .. Len(images)}

\* 0-based index of the first entry carrying the id (the entry the handlers
\* act on when two entries drew the same id).
IndexOfId(images, id) ==
    CHOOSE k \in 0 .. (Len(images) - 1) :
        /\ images[k + 1].id = id
        /\ \A j \in 0 .. (k - 1) : images[j + 1].id # id

\* The sequence without its entry at the 0-based index.
RemoveAt(images, index) ==
    [k \in 1 .. (Len(images) - 1) |->
        IF k <= index THEN images[k] ELSE images[k + 1]]

CountOf(images, entry) == Cardinality({k \in 1 .. Len(images) : images[k] = entry})

\* A drop of a dragged id on another id, both carried by entries.
IsRelocation ==
    /\ IsDrop
    /\ draggedImage # lastOp'.id
    /\ draggedImage \in IdsOf(selectedImages)
    /\ lastOp'.id \in IdsOf(selectedImages)

\* C5, as claimed: after a relocation the source entry sits immediately
\* before the target entry, wherever it started.
C5_SourceBeforeTarget ==
    [][IsRelocation
       => IndexOfId(selectedImages', draggedImage) + 1
            = IndexOfId(selectedImages', lastOp'.id)]_vars

\* C5, amended: after a relocation the source entry holds the index the
\* target held before; it is then immediately before the target when it
\* started after it and immediately after the target when it started
\* before it; taking the source out, the order of the others is unchanged.
C5_SourceTakesTargetIndex ==
    [][IsRelocation
       => LET d == IndexOfId(selectedImages, draggedImage)
              t == IndexOfId(selectedImages, lastOp'.id)
          IN  /\ Len(selectedImages') = Len(selectedImages)
              /\ selectedImages'[t + 1] = selectedImages[d + 1]
              /\ RemoveAt(selectedImages', t) = RemoveAt(selectedImages, d)
              /\ d > t => selectedImages'[t + 2] = selectedImages[t + 1]
              /\ d < t => selectedImages'[t] = selectedImages[t + 1]]_vars

\* The first of three entries was dropped on the last one and now follows it.
C5_Witness ==
    /\ lastOp.op = "handleDropImage"
    /\ lastOp.draggedIndex = 0
    /\ lastOp.targetIndex = 2
    /\ Len(selectedImages) = 3
    /\ selectedImages[2].id = lastOp.id
    /\ selectedImages[3].id = lastOp.dragged
    /\ selectedImages[3] # selectedImages[1]
    /\ status = [message |-> "Image order updated", type |-> "success"]

\* C6: a directional move and a drop keep the length of the collection and
\* every entry in it, as often as it occurred before.
C6_ReorderPreservesEntries ==
    [][(IsMove \/ IsDrop)
       => /\ Len(selectedImages') = Len(selectedImages)
          /\ \A k \in 1 .. Len(selectedImages) :
                 CountOf(selectedImages', selectedImages[k])
                   = CountOf(selectedImages, selectedImages[k])]_vars

\* The last of three entries was dropped on the first one.
C6_Witness ==
    /\ lastOp.op = "handleDropImage"
    /\ lastOp.draggedIndex = 2
    /\ lastOp.targetIndex = 0
    /\ Len(selectedImages) = 3
    /\ selectedImages[1].id = lastOp.dragged
    /\ selectedImages[2].id = lastOp.id
    /\ status = [message |-> "Image order updated", type |-> "success"]

\* C7, as claimed: a drop whose dragged id equals the target id, or one of
\* whose ids no entry carries, leaves collection and notification alone.
C7_DropNoOp ==
    [][(IsDrop /\ \/ draggedImage = lastOp'.id
                  \/ draggedImage \notin IdsOf(selectedImages)
                  \/ lastOp'.id \notin IdsOf(selectedImages))
       => /\ selectedImages' = selectedImages
          /\ status' = status]_vars

\* C8: a directional move away from the boundary exchanges the entry with
\* its neighbour in that direction and leaves every other position alone.
C8_MoveSwapsNeighbours ==
    [][(IsMove /\ ~(lastOp'.direction = "up" /\ lastOp'.index = 0)
               /\ ~(lastOp'.direction = "down"
                      /\ lastOp'.index = Len(selectedImages) - 1))
       => LET i == lastOp'.index + 1
              j == IF lastOp'.direction = "up" THEN i - 1 ELSE i + 1
          IN  /\ Len(selectedImages') = Len(selectedImages)
              /\ selectedImages'[i] = selectedImages[j]
              /\ selectedImages'[j] = selectedImages[i]
              /\ \A k \in 1 .. Len(selectedImages) :
                     k \notin {i, j} => selectedImages'[k] = selectedImages[k]]_vars

\* The middle entry of three was moved down.
C8_Witness ==
    /\ lastOp = [op |-> "moveImage", index |-> 1, direction |-> "down"]
    /\ Len(selectedImages) = 3
    /\ selectedImages[2] # selectedImages[3]
    /\ selectedImages[1] # selectedImages[2]

\* C9: a move up at index 0 and a move down at the last index change
\* nothing: not the collection, not the notification, nor anything else.
C9_MoveAtBoundaryNoOp ==
    [][(IsMove /\ \/ lastOp'.direction = "up" /\ lastOp'.index = 0
                  \/ lastOp'.direction = "down"
                       /\ lastOp'.index = Len(selectedImages) - 1)
       => /\ UNCHANGED <<selectedImages, status, loading, draggedImage, gen>>
          /\ urlCalls' = [created |-> 0, revoked |-> 0]
          /\ saved' = <<>>]_vars

\* The last of three entries was asked to move down.
C9_Witness ==
    /\ lastOp = [op |-> "moveImage", index |-> 2, direction |-> "down"]
    /\ Len(selectedImages) = 3
    /\ status = [message |-> "Image order updated", type |-> "success"]

\* C10, as claimed: removing an id an entry carries takes exactly that
\* entry out, the others keeping their order, and releases exactly one
\* object URL (the one of the entry removed).
C10_RemoveReleasesOne ==
    [][(IsRemove /\ lastOp'.id \in IdsOf(selectedImages))
       => LET at == IndexOfId(selectedImages, lastOp'.id)
          IN  /\ Len(selectedImages') = Len(selectedImages) - 1
              /\ selectedImages' = RemoveAt(selectedImages, at)
              /\ urlCalls'.revoked = 1]_vars

IsClear == lastOp'.op = "clearAll"

\* C11, as claimed: clearing a collection of N entries releases N object
\* URLs and leaves the collection empty.
C11_ClearReleasesAll ==
    [][IsClear
       => /\ Len(selectedImages') = 0
          /\ urlCalls'.revoked = Len(selectedImages)]_vars

\* C12, as claimed: the object URLs not yet released are those of the
\* entries in the collection.  Both sets are empty initially, so the claim
\* requires every event to change their sizes by the same amount: the URLs
\* it creates less the URLs it releases is the growth of the collection.
C12_UnreleasedAreHeld ==
    [][urlCalls'.created - urlCalls'.revoked
         = Len(selectedImages') - Len(selectedImages)]_vars

IsGenerate == lastOp'.op = "generatePDF"

\* C13: generatePDF on the empty collection shows the no-input error and
\* does nothing else: loading stays false, no invocation gets as far as
\* constructing a document, nothing is saved, the collection is untouched.
C13_EmptyAssemblyRefused ==
    [][(IsGenerate /\ Len(selectedImages) = 0)
       => /\ status' = [message |-> "No images selected", type |-> "error"]
          /\ loading' = FALSE
          /\ gen' = gen
          /\ gen' = <<>>
          /\ saved' = <<>>
          /\ urlCalls' = [created |-> 0, revoked |-> 0]
          /\ UNCHANGED <<selectedImages, loading, draggedImage>>]_vars

\* generatePDF was called after the collection had been filled, an entry
\* dragged, and every entry removed again.
C13_Witness ==
    /\ lastOp.op = "generatePDF"
    /\ Len(selectedImages) = 0
    /\ draggedImage # NoId
    /\ status = [message |-> "No images selected", type |-> "error"]
    /\ ~loading
    /\ gen = <<>>

\* C14: an assembly is started on the collection as it is, and when it
\* completes it saves one document of as many pages as that collection had
\* entries, page k holding the image of its k-th entry and nothing else, and
\* the success notification names that number.
C14_PagesInCollectionOrder ==
    [][/\ Len(gen') > Len(gen)
          => /\ Len(selectedImages) >= 1
             /\ gen'[Len(gen')].images = selectedImages
       /\ Len(gen') = Len(gen)
          => \A k \in 1 .. Len(gen) :
                 (gen[k].pc = "await" /\ gen'[k].pc = "await")
                   => gen'[k].images = gen[k].images
       /\ saved' # <<>>
          => \E k \in 1 .. Len(gen) :
                 LET images == gen[k].images
                     n == Len(images)
                     doc == saved'[1]
                 IN  /\ Len(gen') = Len(gen) - 1
                     /\ Len(saved') = 1
                     /\ n >= 1
                     /\ Len(doc) = n
                     /\ \A p \in 1 .. n :
                            /\ Len(doc[p]) = 1
                            /\ doc[p][1].image = images[p]
                     /\ status' = [message |-> "PDF generated with "
                                                 \o ToString(n) \o " image(s)",
                                   type |-> "success"]]_vars

\* A document of three pages was saved, a PNG between two JPEGs.
C14_Witness ==
    /\ Len(saved) = 1
    /\ Len(saved[1]) = 3
    /\ saved[1][1][1].image.file = "image/jpeg"
    /\ saved[1][2][1].image.file = "image/png"
    /\ saved[1][3][1].image.file = "image/jpeg"
    /\ status = [message |-> "PDF generated with 3 image(s)", type |-> "success"]
    /\ ~loading

\* C15: an invocation that waits for a decode waits for the decode of one
\* entry, its i-th: the entries before it have been placed, one to a page in
\* their order, the page of entry i is still empty, and no later entry has
\* been started (no page exists for it yet).
C15_OneDecodeAtATime ==
    \A k \in 1 .. Len(gen) :
        gen[k].pc = "await"
          => LET g == gen[k]
             IN  /\ g.i \in 0 .. (Len(g.images) - 1)
                 /\ Len(g.pdf) = g.i + 1
                 /\ \A p \in 1 .. g.i :
                        /\ Len(g.pdf[p]) = 1
                        /\ g.pdf[p][1].image = g.images[p]
                 /\ g.pdf[g.i + 1] = <<>>

\* The third entry is being decoded, the first two are placed.
C15_Witness ==
    /\ Len(gen) = 1
    /\ gen[1].pc = "await"
    /\ gen[1].i = 2
    /\ Len(gen[1].pdf[2]) = 1

\* The documents under assembly and the documents saved.
Documents ==
    {saved[n] : n \in 1 .. Len(saved)}
    \cup {gen[k].pdf : k \in {j \in 1 .. Len(gen) : gen[j].pc = "await"}}

\* What addImage has drawn on the pages of a document.
PlacedOn(doc) ==
    UNION {{doc[p][q] : q \in 1 .. Len(doc[p])} : p \in 1 .. Len(doc)}

\* C16: every image placed is placed as a PNG when the file of its entry is
\* of type image/png and as a JPEG when it is of any other accepted type,
\* whatever the other entries are.
C16_FormatPerEntry ==
    /\ \A doc \in Documents : \A placed \in PlacedOn(doc) :
           /\ placed.image.file \in AcceptedMime
           /\ placed.image.file = "image/png" => placed.format = "PNG"
           /\ placed.image.file # "image/png" => placed.format = "JPEG"
    /\ \A type \in AcceptedMime :
           ImageFormat(type) = IF type = "image/png" THEN "PNG" ELSE "JPEG"

\* A saved document holds a PNG page followed by a JPEG page.
C16_Witness ==
    /\ Len(saved) = 1
    /\ Len(saved[1]) = 2
    /\ saved[1][1][1] = [image |-> [file |-> "image/png", id |-> 1],
                          format |-> "PNG"]
    /\ saved[1][2][1] = [image |-> [file |-> "image/jpeg", id |-> 1],
                          format |-> "JPEG"]

\* A step in which the image an invocation waits for fails to decode.
DecodeFails == \E k \in 1 .. Len(gen) : imgOnerror(k)

\* C18, as claimed: when a decode fails the assembly is aborted: nothing is
\* saved, the notification is the generic error and loading is false again.
C18_FailureAborts ==
    [][DecodeFails
       => /\ saved' = <<>>
          /\ status' = [message |-> "Error generating PDF", type |-> "error"]
          /\ loading' = FALSE]_vars

\* C20: at most one generatePDF invocation is in flight, and loading is
\* true exactly while one is.
C20_OneAssemblyInFlight ==
    /\ Len(gen) <= 1
    /\ loading <=> Len(gen) = 1

\* An assembly is in flight on a collection that can take more entries, with
\* its second decode outstanding.
C20_Witness ==
    /\ loading
    /\ Len(gen) = 1
    /\ gen[1].pc = "await"
    /\ gen[1].i = 1
    /\ Len(selectedImages) >= 1

\* C19, as claimed: when every decode ends in a load or an error event, an
\* assembly that has started ends: loading is false again, with the success
\* or the error notification of the assembly showing.
C19_AssemblyTerminates ==
    loading ~> (/\ ~loading
                /\ \/ status.type = "error"
                   \/ /\ status.type = "success"
                      /\ \E n \in 1 .. MaxImages :
                             status.message = "PDF generated with "
                                                \o ToString(n) \o " image(s)")

\* C17: an image of positive size w x h, placed on a page W x H with margin
\* m in 0..30 (W > 2m, H > 2m), gets a rectangle of width w*r and height
\* h*r for r the smaller of (W-2m)/w and (H-2m)/h: it fits the page less
\* its margins on both axes and fills it on one, keeps the ratio w:h, and
\* is centred on the page, so that it starts at or beyond the margin.
C17_FitToPage ==
    placement.drawn
      => LET W == IF pageSettings.orientation = "portrait" THEN 210 ELSE 297
             H == IF pageSettings.orientation = "portrait" THEN 297 ELSE 210
             m == pageSettings.margin
             w == placement.imgWidth
             h == placement.imgHeight
             sw == placement.rect.width
             sh == placement.rect.height
             x == placement.rect.x
             y == placement.rect.y
             widthBound == (W - 2 * m) * h <= (H - 2 * m) * w
         IN  /\ m \in 0 .. 30 /\ W > 2 * m /\ H > 2 * m /\ w > 0 /\ h > 0
             /\ sw.den > 0 /\ sh.den > 0 /\ x.den > 0 /\ y.den > 0
             \* width = w * r and height = h * r
             /\ widthBound => /\ sw.num = (W - 2 * m) * sw.den
                              /\ sh.num * w = h * (W - 2 * m) * sh.den
             /\ ~widthBound => /\ sh.num = (H - 2 * m) * sh.den
                               /\ sw.num * h = w * (H - 2 * m) * sw.den
             \* inside the margins on both axes, filling one of them
             /\ sw.num <= (W - 2 * m) * sw.den
             /\ sh.num <= (H - 2 * m) * sh.den
             /\ \/ sw.num = (W - 2 * m) * sw.den
                \/ sh.num = (H - 2 * m) * sh.den
             \* aspect ratio: width / height = w / h
             /\ sw.num * sh.den * h = sh.num * sw.den * w
             \* centred: 2x + width = W and 2y + height = H
             /\ 2 * x.num * sw.den + sw.num * x.den = W * x.den * sw.den
             /\ 2 * y.num * sh.den + sh.num * y.den = H * y.den * sh.den
             /\ x.num >= m * x.den
             /\ y.num >= m * y.den

\* A 640 x 150 image was scaled down onto a landscape page with margin 30:
\* it fills the width between the margins and leaves room above and below.
C17_Witness ==
    /\ placement.drawn
    /\ pageSettings.orientation = "landscape"
    /\ pageSettings.margin = 30
    /\ placement.imgWidth = 640
    /\ placement.imgHeight = 150
    /\ placement.rect.width = [num |-> 237, den |-> 1]
    /\ placement.rect.x = [num |-> 30, den |-> 1]
    /\ placement.rect.y.num > 30 * placement.rect.y.den

\* The images on the pages of a document, page by page; a page that does
\* not hold exactly one image counts as holding none.
PageImages(doc) ==
    [p \in 1 .. Len(doc) |->
        IF Len(doc[p]) = 1 THEN doc[p][1].image ELSE [file |-> "none", id |-> 0]]

\* C21, as claimed: when an assembly completes, the page count of its
\* success notification is the size the collection has at that moment and
\* the pages of the document are the entries of the collection as it is at
\* that moment, whatever ran while the assembly waited for its decodes.
C21_SuccessMatchesCollection ==
    [][saved' # <<>>
       => /\ status' = [message |-> "PDF generated with "
                                      \o ToString(Len(selectedImages'))
                                      \o " image(s)",
                        type |-> "success"]
          /\ PageImages(saved'[1]) = selectedImages']_vars

\* C30: an assembly works on the collection as it was when it was started.
\* No change of the collection made while it waits reaches it, and the
\* document it saves and the count it reports are those of that collection.
C30_AssemblyOnSnapshot ==
    [][/\ Len(gen') > Len(gen)
          => gen'[Len(gen')].images = selectedImages
       /\ selectedImages' # selectedImages
          => gen' = gen
       /\ saved' # <<>>
          => /\ selectedImages' = selectedImages
             /\ \E k \in 1 .. Len(gen) :
                    /\ gen[k].pc = "await"
                    /\ PageImages(saved'[1]) = gen[k].images
                    /\ status'.message = "PDF generated with "
                                           \o ToString(Len(gen[k].images))
                                           \o " image(s)"]_vars

\* A document of two pages was saved and announced while the collection,
\* after a removal and a move made during the assembly, holds one entry.
C30_Witness ==
    /\ Len(saved) = 1
    /\ Len(saved[1]) = 2
    /\ status = [message |-> "PDF generated with 2 image(s)", type |-> "success"]
    /\ Len(selectedImages) = 1
    /\ selectedImages[1] = saved[1][2][1].image
    /\ selectedImages[1] # saved[1][1][1].image

\* The operation a notification speaks of, by its text: "reorder" for the
\* message of a changed order, "none" for no notification, "other" for a
\* text that no operation of the component uses.
MessageKind(notification) ==
    IF notification = [message |-> "", type |-> "null"] THEN "none"
    ELSE IF \/ notification.message
                 \in {"Please upload valid images (JPEG, PNG, WebP, GIF)",
                      "Maximum 50 images allowed"}
            \/ \E n \in 1 .. MaxImages :
                   notification.message = ToString(n) \o " image(s) added"
         THEN "handleFiles"
    ELSE IF notification.message = "Image order updated" THEN "reorder"
    ELSE IF notification.message = "All images removed" THEN "removeImage"
    ELSE IF notification.message = "All images cleared" THEN "clearAll"
    ELSE IF notification.message = "No images selected" THEN "generatePDF"
    ELSE "other"

OpKind(op) == IF op \in {"handleDropImage", "moveImage"} THEN "reorder" ELSE op

\* An operation on the collection of those the claim names: any intake,
\* clear-all or assembly, a move that changes the order, a relocation by
\* drop, a removal of an id an entry carries.
OperatesOnCollection ==
    \/ lastOp'.op \in {"handleFiles", "clearAll", "generatePDF"}
    \/ IsMove /\ selectedImages' # selectedImages
    \/ IsRelocation
    \/ IsRemove /\ lastOp'.id \in IdsOf(selectedImages)

\* C22, as claimed: after every operation on the collection the
\* notification showing is one of that operation, never one that an
\* earlier operation of another kind left behind, and never none.
C22_NotificationReplaced ==
    [][OperatesOnCollection
       => MessageKind(status') \in {OpKind(lastOp'.op), "other"}]_vars

\* C23, as claimed: a removal that empties the collection shows "All images
\* removed"; a removal that leaves entries behind shows a notification of
\* its own, which is neither that one nor one left by another operation.
C23_RemovalNotifies ==
    [][(IsRemove /\ lastOp'.id \in IdsOf(selectedImages))
       => /\ Len(selectedImages') = 0
             => status' = [message |-> "All images removed", type |-> "success"]
          /\ Len(selectedImages') > 0
             => /\ status'.message # "All images removed"
                /\ MessageKind(status') = "other"]_vars

\* C24, as claimed: no two entries of the collection carry the same id.
C24_IdsUnique ==
    \A j \in 1 .. Len(selectedImages) : \A k \in 1 .. Len(selectedImages) :
        j # k => selectedImages[j].id # selectedImages[k].id

IsNumber(text) ==
    /\ Len(text) >= 1
    /\ \A k \in 1 .. Len(text) :
           text[k] \in {"0", "1", "2", "3", "4", "5", "6", "7", "8", "9"}

IsPage(text) ==
    \/ IsNumber(text)
    \/ \E k \in 1 .. Len(text) :
           /\ text[k] = "-"
           /\ IsNumber(SubSeq(text, 1, k - 1))
           /\ IsNumber(SubSeq(text, k + 1, Len(text)))

RECURSIVE IsPageSet(_)
IsPageSet(text) ==
    \/ IsPage(text)
    \/ \E k \in 1 .. Len(text) :
           /\ text[k] = ","
           /\ IsPage(SubSeq(text, 1, k - 1))
           /\ IsPageSet(SubSeq(text, k + 1, Len(text)))

HasBlank(text) == \E k \in 1 .. Len(text) : text[k] = " "

WithoutBlanks(text) ==
    LET NotBlank(c) == c # " " IN SelectSeq(text, NotBlank)

IsSplit == lastOp'.op = "handleSplit"

\* handleSplit let the page selection pass: it went on to send a request.
Accepted == pdfSplit'.requests # <<>> /\ pdfSplit'.loading

C28_SentPagesMatchGrammar ==
    [][\A n \in 1 .. Len(pdfSplit'.requests) :
           IsPageSet(pdfSplit'.requests[n].pages)]_vars

\* C29: requests are sent by handleSplit alone, one at most per call; when
\* the request fails (a response that is not ok, or a fetch that throws)
\* the error is set, success stays unset, nothing is downloaded, loading is
\* false again and no request is sent.
C29_TransportErrorsTerminal ==
    [][/\ Len(pdfSplit'.requests) <= 1
       /\ pdfSplit'.requests # <<>> => IsSplit
       /\ (lastOp'.op = "fetchSettles" /\ lastOp'.outcome \in {"notOk", "throws"})
          => /\ pdfSplit'.error \notin {"null", ""}
             /\ pdfSplit'.success = "null"
             /\ pdfSplit'.downloads = <<>>
             /\ pdfSplit'.loading = FALSE
             /\ pdfSplit'.requests = <<>>
             /\ pdfSplit'.calls = <<>>]_vars

\* The endpoint answered a request with a response that is not ok.
C29_Witness ==
    /\ lastOp = [op |-> "fetchSettles", outcome |-> "notOk"]
    /\ pdfSplit.error = "Failed to split PDF"
    /\ pdfSplit.success = "null"
    /\ ~pdfSplit.loading
    /\ pdfSplit.selectedFile.type = "application/pdf"

\* C31, as claimed: draggedImage is null or the id of an entry of the
\* collection, and after every handleDropImage, a drop of an entry on
\* itself included, it is null.
C31_DragStateValid ==
    /\ [](draggedImage = 0 \/ draggedImage \in IdsOf(selectedImages))
    /\ [][IsDrop => draggedImage' = 0]_vars

\* C32, as claimed: the error message and the success message of PdfSplit
\* are never both set.
C32_ErrorXorSuccess ==
    ~(pdfSplit.error # "null" /\ pdfSplit.success # "null")

IsSettle == lastOp'.op = "fetchSettles"

\* C33: at most one handleSplit invocation waits for its request, loading
\* is true exactly while one does, and one is started only while loading is
\* false.  When the request settles the invocation ends with loading false
\* and sets one of the two messages: success, leaving error alone, when
\* the response is ok, and otherwise error, leaving success alone.
C33_SplitCompletes ==
    [][/\ Len(pdfSplit'.calls) <= 1
       /\ pdfSplit'.loading <=> Len(pdfSplit'.calls) = 1
       /\ Len(pdfSplit'.calls) > Len(pdfSplit.calls)
          => /\ IsSplit
             /\ ~pdfSplit.loading
       /\ IsSettle
          => /\ Len(pdfSplit.calls) = 1
             /\ Len(pdfSplit'.calls) = 0
             /\ pdfSplit'.loading = FALSE
             /\ lastOp'.outcome = "ok"
                => /\ pdfSplit'.success = "PDF successfully split and downloaded!"
                   /\ pdfSplit'.error = pdfSplit.error
                   /\ Len(pdfSplit'.downloads) = 1
             /\ lastOp'.outcome # "ok"
                => /\ pdfSplit'.error \in {"Failed to split PDF", "Failed to fetch"}
                   /\ pdfSplit'.success = pdfSplit.success
                   /\ pdfSplit'.success = "null"
                   /\ pdfSplit'.downloads = <<>>]_vars

\* The request for the file named ".pdf" was answered ok and downloaded.
C33_Witness ==
    /\ lastOp = [op |-> "fetchSettles", outcome |-> "ok"]
    /\ ~pdfSplit.loading
    /\ pdfSplit.calls = <<>>
    /\ pdfSplit.success = "PDF successfully split and downloaded!"
    /\ pdfSplit.error = "null"
    /\ pdfSplit.downloads = <<"split-document.pdf">>

IsFileEvent == lastOp'.op \in {"handleFileChange", "handleDrop"}

\* C34: a file selected or dropped that is no PDF sets the error and
\* leaves selectedFile and fileName as they were; a PDF replaces both.
\* fileName is the name of selectedFile in every state, and a request
\* carries the file selected.
C34_FileRejectionFrame ==
    [][/\ (IsFileEvent /\ Len(lastOp'.files) >= 1)
          => LET file == lastOp'.files[1]
             IN  /\ file.type # "application/pdf"
                    => /\ pdfSplit'.error = "Please upload a PDF file only."
                       /\ pdfSplit'.selectedFile = pdfSplit.selectedFile
                       /\ pdfSplit'.fileName = pdfSplit.fileName
                 /\ file.type = "application/pdf"
                    => /\ pdfSplit'.selectedFile = file
                       /\ pdfSplit'.fileName = file.name
       /\ pdfSplit'.fileName = pdfSplit'.selectedFile.name
       /\ pdfSplit'.requests # <<>>
          => /\ pdfSplit'.requests[1].file = pdfSplit.selectedFile
             /\ pdfSplit.selectedFile.type = "application/pdf"]_vars

\* After a.pdf had been selected a PNG was dropped and refused: a.pdf is
\* still the file selected.
C34_Witness ==
    /\ lastOp = [op |-> "handleDrop",
                 files |-> <<[name |-> "b.png", type |-> "image/png"]>>]
    /\ pdfSplit.selectedFile = [name |-> "a.pdf", type |-> "application/pdf"]
    /\ pdfSplit.fileName = "a.pdf"
    /\ pdfSplit.error = "Please upload a PDF file only."

====
